---- MODULE Spec2Model ----
(***************************************************************************)
(* Model of scripts/multiboot/config.py: the module-level load of          *)
(* <rootdir>/defaults.conf through the configparser library and the        *)
(* accessors get, has, get_device, get_selinux, get_ramdisk_offset and     *)
(* get_partition.                                                          *)
(*                                                                         *)
(* A value is a sequence of tokens: a literal token stands for its text,   *)
(* the token "%(device)s" is an interpolation reference to the option      *)
(* "device".  The empty string is the empty sequence.  A section is a      *)
(* function from option names to values; the document is the pair          *)
(* (sections, defaults) the parser keeps (_sections, _defaults).           *)
(***************************************************************************)
EXTENDS Integers, Sequences, FiniteSets, TLC

VARIABLES
    py3,        \* config.py:8-15, the interpreter branch taken at import
    fileExists, \* whether <rootdir>/defaults.conf exists (environment)
    pc,         \* position of module initialization
    cursect,    \* the parser's current section while reading
    sections,   \* config._sections
    defaults,   \* config._defaults (the DEFAULT section)
    added,      \* the parser's elements_added (strict duplicate check, py3)
    pending,    \* a ParsingError was recorded and is raised at end of file
    nread,      \* lines read so far
    initError,  \* exception that left module initialization, or "none"
    last,       \* the last accessor call and its outcome
    tpc,        \* per thread: position inside a device-scoped accessor
    top,        \* per thread: the accessor being run
    tres        \* per thread: intermediate / final outcome

vars == <<py3, fileExists, pc, cursect, sections, defaults, added, pending,
          nread, initError, last, tpc, top, tres>>

loadVars == <<cursect, sections, defaults, added, pending, nread>>
threadVars == <<tpc, top, tres>>

----
\* Bounds of the model.
MaxLines == 4
NumThreads == 2

\* configparser.MAX_INTERPOLATION_DEPTH
MAX_INTERPOLATION_DEPTH == 10

DEFAULTSECT == "DEFAULT"
NoSect == "<none>"

EmptyDict == [x \in {} |-> <<>>]

SectionNames == {"Defaults", "deviceA", DEFAULTSECT}
OptionArgs == {"device", "Device", "selinux", "ramdisk_offset",
               "partition.boot", "__name__"}
PartitionNames == {"boot", "recovery"}
RefDevice == "%(device)s"

Threads == 1..NumThreads

----
\* Outcomes of a call: a returned string, None, a boolean, or a raised
\* exception with its arguments.
Ret(v) == [k |-> "str", v |-> v]
None == [k |-> "None", v |-> <<>>]
Bool(b) == [k |-> IF b THEN "True" ELSE "False", v |-> <<>>]
Raise(e, args) == [k |-> e, v |-> args]

Returned == {"str", "None", "True", "False"}
IsRaise(o) == o.k \notin Returned
\* KeyError (py3 mapping access) and NoSectionError / NoOptionError (py2
\* parser.get) are the missing-section / missing-option lookup failures.
LookupErrors == {"KeyError", "NoSectionError", "NoOptionError"}
IsLookupError(o) == o.k \in LookupErrors

\* The text of a value: the concatenation of its tokens.
RECURSIVE Str(_)
Str(v) == IF v = <<>> THEN "" ELSE Head(v) \o Str(Tail(v))

\* RawConfigParser.optionxform: option names are lower-cased.
optionxform(o) == IF o = "Device" THEN "device" ELSE o

\* "partition." + partition
PartitionKey(p) == "partition." \o p

----
\* The lines a defaults.conf may hold: [section] headers, option lines and
\* a line that is neither (comments and blank lines are skipped by the
\* parser and are left out).
Header(s) == [t |-> "sect", name |-> s, val |-> <<>>]
Opt(o, v) == [t |-> "opt", name |-> o, val |-> v]
Junk == [t |-> "junk", name |-> "", val |-> <<>>]

Lines ==
    {Header(s) : s \in SectionNames}
    \cup {Opt("device", <<"deviceA">>), Opt("device", <<"Defaults">>),
          Opt("device", <<RefDevice>>),
          Opt("selinux", <<>>), Opt("selinux", <<"unchanged">>),
          Opt("selinux", <<"permissive">>), Opt("selinux", <<RefDevice>>),
          Opt("ramdisk_offset", <<>>), Opt("ramdisk_offset", <<"unchanged">>),
          Opt("partition.boot", <<"/dev/sda1">>),
          Opt("partition.boot", <<RefDevice>>)}
    \cup {Junk}

----
\* The dictionary the parser writes option lines of section s into.
SectDict(s) ==
    IF s = DEFAULTSECT THEN defaults
    ELSE IF s \in DOMAIN sections THEN sections[s] ELSE EmptyDict

\* ChainMap(sectiondict, defaults): the section's own options first.
Unify(s) == SectDict(s) @@ defaults

\* RawConfigParser.has_option
has_option(section, option) ==
    IF section = "" \/ section = DEFAULTSECT
    THEN optionxform(option) \in DOMAIN defaults
    ELSE IF section \notin DOMAIN sections THEN FALSE
    ELSE optionxform(option) \in DOMAIN sections[section]
         \/ optionxform(option) \in DOMAIN defaults

HasRef(v) == \E i \in 1..Len(v) : v[i] = RefDevice
RefName(tok) == "device"

\* py3 BasicInterpolation._interpolate_some: references are expanded
\* depth-first, left to right; the first failure is raised.
RECURSIVE Interp3(_, _, _, _)
Interp3(rest, map, depth, where) ==
    IF depth > MAX_INTERPOLATION_DEPTH
    THEN Raise("InterpolationDepthError", where)
    ELSE IF rest = <<>> THEN Ret(<<>>)
    ELSE LET tok == Head(rest)
             var == optionxform(RefName(tok))
             first ==
                 IF tok # RefDevice THEN Ret(<<tok>>)
                 ELSE IF var \notin DOMAIN map
                 THEN Raise("InterpolationMissingOptionError", where)
                 ELSE IF HasRef(map[var])
                 THEN Interp3(map[var], map, depth + 1, where)
                 ELSE Ret(map[var])
         IN  IF IsRaise(first) THEN first
             ELSE LET more == Interp3(Tail(rest), map, depth, where)
                  IN  IF IsRaise(more) THEN more
                      ELSE Ret(first.v \o more.v)

\* One pass of "value % vars" (py2): every reference replaced by the raw
\* value of the option it names.
RECURSIVE Subst(_, _)
Subst(v, map) ==
    IF v = <<>> THEN <<>>
    ELSE (IF Head(v) = RefDevice
          THEN map[optionxform(RefName(Head(v)))]
          ELSE <<Head(v)>>) \o Subst(Tail(v), map)

\* py2 ConfigParser._interpolate: up to MAX_INTERPOLATION_DEPTH passes.
RECURSIVE Interp2(_, _, _, _)
Interp2(value, map, depth, where) ==
    IF ~HasRef(value) THEN Ret(value)
    ELSE IF depth = 0 THEN Raise("InterpolationDepthError", where)
    ELSE IF optionxform(RefName(RefDevice)) \notin DOMAIN map
    THEN Raise("InterpolationMissingOptionError", where)
    ELSE Interp2(Subst(value, map), map, depth - 1, where)

\* ConfigParser.get(section, option) of the parser object.
parser_get(section, option) ==
    IF section # DEFAULTSECT /\ section \notin DOMAIN sections
    THEN Raise("NoSectionError", <<section>>)
    ELSE LET d == Unify(section)
             o == optionxform(option)
         IN  IF o \notin DOMAIN d
             THEN Raise("NoOptionError", <<o, section>>)
             ELSE IF py3
             THEN Interp3(d[o], d, 1, <<o, section>>)
             ELSE Interp2(d[o], d, MAX_INTERPOLATION_DEPTH, <<o, section>>)

\* config[section] (py3): the section proxy, or KeyError.
SectionMissing3(section) ==
    section # DEFAULTSECT /\ section \notin DOMAIN sections

\* Variant of get: the two subscripts exchanged, config[option][section].
get_swapped(section, option) ==
    IF py3
    THEN IF SectionMissing3(option) THEN Raise("KeyError", <<option>>)
         ELSE IF ~has_option(option, section)
         THEN Raise("KeyError", <<section>>)
         ELSE parser_get(option, section)
    ELSE parser_get(option, section)

\* Variant of get: config[section].get(option), the mapping's get, which
\* answers None for an option that is not there.
get_fallback(section, option) ==
    IF py3
    THEN IF SectionMissing3(section) THEN Raise("KeyError", <<section>>)
         ELSE IF ~has_option(section, option) THEN None
         ELSE parser_get(section, option)
    ELSE parser_get(section, option)

\* get(section, option), config.py:20-24
get(section, option) ==
    IF py3
    THEN IF SectionMissing3(section) THEN Raise("KeyError", <<section>>)
         ELSE IF ~has_option(section, option)
         THEN Raise("KeyError", <<option>>)
         ELSE parser_get(section, option)
    ELSE parser_get(section, option)

\* has(section, option), config.py:27-31
has(section, option) ==
    IF py3
    THEN IF SectionMissing3(section) THEN Raise("KeyError", <<section>>)
         ELSE Bool(has_option(section, option))
    ELSE Bool(has_option(section, option))

\* get_device(), config.py:34-35
get_device == get("Defaults", "device")

\* Variant of HasPhase: a missing device counts as "option not there".
HasPhase_guarded(key) ==
    IF IsRaise(get_device) THEN Bool(FALSE)
    ELSE has(Str(get_device.v), key)

\* has(get_device(), key): the condition of a device-scoped accessor.
HasPhase(key) ==
    IF IsRaise(get_device) THEN get_device
    ELSE has(Str(get_device.v), key)

\* get(get_device(), key): the second lookup of a device-scoped accessor.
GetPhase(key) ==
    IF IsRaise(get_device) THEN get_device
    ELSE get(Str(get_device.v), key)

\* config.py:41-44, what get_selinux does with the value it read.
SelinuxResult(value) ==
    IF IsRaise(value) THEN value
    ELSE IF Str(value.v) # "" /\ Str(value.v) = "unchanged" THEN None
    ELSE value

\* get_selinux(), config.py:38-46
get_selinux ==
    LET h == HasPhase("selinux")
    IN  IF IsRaise(h) THEN h
        ELSE IF h.k = "True" THEN SelinuxResult(GetPhase("selinux"))
        ELSE None

\* Variant of get_ramdisk_offset: the body of get_selinux copied, with
\* its collapsing of "unchanged".
get_ramdisk_offset_collapse ==
    LET h == HasPhase("ramdisk_offset")
    IN  IF IsRaise(h) THEN h
        ELSE IF h.k = "True" THEN SelinuxResult(GetPhase("ramdisk_offset"))
        ELSE None

\* get_ramdisk_offset(), config.py:49-53
get_ramdisk_offset ==
    LET h == HasPhase("ramdisk_offset")
    IN  IF IsRaise(h) THEN h
        ELSE IF h.k = "True" THEN GetPhase("ramdisk_offset")
        ELSE None

\* get_partition(partition), config.py:56-60
get_partition(partition) ==
    LET h == HasPhase(PartitionKey(partition))
    IN  IF IsRaise(h) THEN h
        ELSE IF h.k = "True" THEN GetPhase(PartitionKey(partition))
        ELSE None

----
NoCall == [op |-> "none", a1 |-> "", a2 |-> "", out |-> None]
Call(op, a1, a2, out) == [op |-> op, a1 |-> a1, a2 |-> a2, out |-> out]

NoThreadOp == [op |-> "none", key |-> ""]

\* State before config.py is imported; the interpreter (config.py:8) and
\* the presence of the file are given by the environment.
Init ==
    /\ py3 \in BOOLEAN
    /\ fileExists \in BOOLEAN
    /\ pc = "import"
    /\ cursect = NoSect
    /\ sections = EmptyDict
    /\ defaults = EmptyDict
    /\ added = {}
    /\ pending = FALSE
    /\ nread = 0
    /\ initError = "none"
    /\ last = NoCall
    /\ tpc = [t \in Threads |-> "idle"]
    /\ top = [t \in Threads |-> NoThreadOp]
    /\ tres = [t \in Threads |-> None]

\* Variant of OpenFile: the file is opened by the module itself, so that
\* its absence raises.
OpenFile_strict ==
    /\ pc = "import"
    /\ IF fileExists
       THEN pc' = "reading" /\ UNCHANGED initError
       ELSE pc' = "raised" /\ initError' = "FileNotFoundError"
    /\ UNCHANGED <<py3, fileExists, loadVars, last, threadVars>>

\* config.read(path), config.py:17: a file that cannot be opened is
\* skipped by the library (OSError is swallowed) and read() returns.
OpenFile ==
    /\ pc = "import"
    /\ pc' = IF fileExists THEN "reading" ELSE "ready"
    /\ UNCHANGED <<py3, fileExists, loadVars, initError, last, threadVars>>

\* Module initialization stops with the exception e.
Fail(e) ==
    /\ pc' = "raised"
    /\ initError' = e

\* RawConfigParser._read on a [section] header line.
ReadHeader(s) ==
    IF s \in DOMAIN sections
    THEN IF py3 /\ <<s, "">> \in added
         THEN /\ Fail("DuplicateSectionError")
              /\ UNCHANGED <<cursect, sections, defaults, added>>
         ELSE /\ cursect' = s
              /\ added' = IF py3 THEN added \cup {<<s, "">>} ELSE added
              /\ UNCHANGED <<pc, initError, sections, defaults>>
    ELSE IF s = DEFAULTSECT
    THEN /\ cursect' = s
         /\ UNCHANGED <<pc, initError, sections, defaults, added>>
    ELSE /\ cursect' = s
         /\ sections' = (s :> (IF py3 THEN EmptyDict
                               ELSE ("__name__" :> <<s>>))) @@ sections
         /\ added' = IF py3 THEN added \cup {<<s, "">>} ELSE added
         /\ UNCHANGED <<pc, initError, defaults>>

\* RawConfigParser._read on an option line "name = val".
ReadOption(name, val) ==
    LET o == optionxform(name)
    IN  IF py3 /\ <<cursect, o>> \in added
        THEN /\ Fail("DuplicateOptionError")
             /\ UNCHANGED <<cursect, sections, defaults, added>>
        ELSE /\ added' = IF py3 THEN added \cup {<<cursect, o>>} ELSE added
             /\ IF cursect = DEFAULTSECT
                THEN /\ defaults' = (o :> val) @@ defaults
                     /\ UNCHANGED sections
                ELSE /\ sections' =
                         (cursect :> ((o :> val) @@ sections[cursect]))
                         @@ sections
                     /\ UNCHANGED defaults
             /\ UNCHANGED <<pc, initError, cursect>>

\* One iteration of the parser's loop over the lines of the file.
ReadLine(line) ==
    /\ pc = "reading"
    /\ nread < MaxLines
    /\ nread' = nread + 1
    /\ IF line.t = "sect"
       THEN ReadHeader(line.name) /\ UNCHANGED pending
       ELSE IF cursect = NoSect
       THEN /\ Fail("MissingSectionHeaderError")
            /\ UNCHANGED <<cursect, sections, defaults, added, pending>>
       ELSE IF line.t = "opt"
       THEN ReadOption(line.name, line.val) /\ UNCHANGED pending
       ELSE /\ pending' = TRUE
            /\ UNCHANGED <<pc, initError, cursect, sections, defaults, added>>
    /\ UNCHANGED <<py3, fileExists, last, threadVars>>

\* End of file: a recorded ParsingError is raised, otherwise read()
\* returns and the module is imported.  The parser's locals are dropped.
EndOfFile ==
    /\ pc = "reading"
    /\ IF pending THEN Fail("ParsingError")
       ELSE pc' = "ready" /\ UNCHANGED initError
    /\ cursect' = NoSect
    /\ added' = {}
    /\ nread' = 0
    /\ pending' = FALSE
    /\ UNCHANGED <<py3, fileExists, sections, defaults, last, threadVars>>

\* Variant of Accessor: a lookup creates the section it does not find.
Accessor_setdefault(op, a1, a2, out) ==
    /\ pc = "ready"
    /\ last = NoCall
    /\ last' = Call(op, a1, a2, out)
    /\ sections' = IF a1 \in SectionNames \ {DEFAULTSECT}
                      /\ a1 \notin DOMAIN sections
                   THEN (a1 :> EmptyDict) @@ sections
                   ELSE sections
    /\ UNCHANGED <<py3, fileExists, pc, cursect, defaults, added, pending,
                   nread, initError, threadVars>>

\* A caller that imported the module calls an accessor and gets its
\* outcome; no accessor assigns to the module's state.
Accessor(op, a1, a2, out) ==
    /\ pc = "ready"
    /\ last = NoCall
    /\ last' = Call(op, a1, a2, out)
    /\ UNCHANGED <<py3, fileExists, pc, loadVars, initError, threadVars>>

CallGet(s, o) == Accessor("get", s, o, get(s, o))
CallHas(s, o) == Accessor("has", s, o, has(s, o))
CallGetDevice == Accessor("get_device", "", "", get_device)
CallGetSelinux == Accessor("get_selinux", "", "", get_selinux)
CallGetRamdiskOffset ==
    Accessor("get_ramdisk_offset", "", "", get_ramdisk_offset)
CallGetPartition(p) == Accessor("get_partition", p, "", get_partition(p))

\* The caller has taken the outcome of its call and goes on.
Return ==
    /\ last # NoCall
    /\ last' = NoCall
    /\ UNCHANGED <<py3, fileExists, pc, loadVars, initError, threadVars>>

\* Threads of the host program calling the device-scoped accessors.  Each
\* accessor runs in two steps, has(get_device(), key) and then
\* get(get_device(), key); other threads may run in between.
ThreadOps ==
    {[op |-> "get_selinux", key |-> "selinux"],
     [op |-> "get_ramdisk_offset", key |-> "ramdisk_offset"]}
    \cup {[op |-> "get_partition", key |-> PartitionKey(p)] :
            p \in PartitionNames}

\* config.py:39/50/57: the condition of the if statement.
ThreadHas(t, call) ==
    /\ pc = "ready"
    /\ tpc[t] = "idle"
    /\ top' = [top EXCEPT ![t] = call]
    /\ LET h == HasPhase(call.key)
       IN  IF IsRaise(h)
           THEN /\ tpc' = [tpc EXCEPT ![t] = "done"]
                /\ tres' = [tres EXCEPT ![t] = h]
           ELSE IF h.k = "True"
           THEN /\ tpc' = [tpc EXCEPT ![t] = "checked"]
                /\ UNCHANGED tres
           ELSE /\ tpc' = [tpc EXCEPT ![t] = "done"]
                /\ tres' = [tres EXCEPT ![t] = None]
    /\ UNCHANGED <<py3, fileExists, pc, loadVars, initError, last>>

\* Variant of ThreadGet: the lookup removes the option it reads (pop).
ThreadGet_pop(t) ==
    /\ tpc[t] = "checked"
    /\ tpc' = [tpc EXCEPT ![t] = "done"]
    /\ tres' = [tres EXCEPT ![t] =
                   IF top[t].op = "get_selinux"
                   THEN SelinuxResult(GetPhase(top[t].key))
                   ELSE GetPhase(top[t].key)]
    /\ sections' =
           IF ~IsRaise(get_device) /\ Str(get_device.v) \in DOMAIN sections
           THEN LET d == Str(get_device.v)
                IN  (d :> [o \in DOMAIN sections[d] \ {top[t].key} |->
                              sections[d][o]]) @@ sections
           ELSE sections
    /\ UNCHANGED <<py3, fileExists, pc, cursect, defaults, added, pending,
                   nread, initError, last, top>>

\* config.py:40-44/51/58: the lookup in the if branch.
ThreadGet(t) ==
    /\ tpc[t] = "checked"
    /\ tpc' = [tpc EXCEPT ![t] = "done"]
    /\ tres' = [tres EXCEPT ![t] =
                   IF top[t].op = "get_selinux"
                   THEN SelinuxResult(GetPhase(top[t].key))
                   ELSE GetPhase(top[t].key)]
    /\ UNCHANGED <<py3, fileExists, pc, loadVars, initError, last, top>>

\* The thread's caller has taken the outcome.
ThreadReturn(t) ==
    /\ tpc[t] = "done"
    /\ tpc' = [tpc EXCEPT ![t] = "idle"]
    /\ top' = [top EXCEPT ![t] = NoThreadOp]
    /\ tres' = [tres EXCEPT ![t] = None]
    /\ UNCHANGED <<py3, fileExists, pc, loadVars, initError, last>>

Load ==
    \/ OpenFile
    \/ \E line \in Lines : ReadLine(line)
    \/ EndOfFile

Next ==
    \/ Load
    \/ \E s \in SectionNames, o \in OptionArgs : CallGet(s, o)
    \/ \E s \in SectionNames, o \in OptionArgs : CallHas(s, o)
    \/ CallGetDevice
    \/ CallGetSelinux
    \/ CallGetRamdiskOffset
    \/ \E p \in PartitionNames : CallGetPartition(p)
    \/ Return

Spec == Init /\ [][Next]_vars

NextMT ==
    \/ Load
    \/ \E t \in Threads, call \in ThreadOps : ThreadHas(t, call)
    \/ \E t \in Threads : ThreadGet(t)
    \/ \E t \in Threads : ThreadReturn(t)

SpecMT == Init /\ [][NextMT]_vars

----
(***************************************************************************)
(* Properties.  They are stated over the parsed document (sections,        *)
(* defaults) and the outcome recorded in last, not over the accessor       *)
(* operators.                                                              *)
(***************************************************************************)
Loaded == pc = "ready"

InterpolationErrors ==
    {"InterpolationMissingOptionError", "InterpolationDepthError"}

DeviceOps ==
    {"get_device", "get_selinux", "get_ramdisk_offset", "get_partition"}
ScopedOps == DeviceOps \ {"get_device"}
StringOps == DeviceOps \cup {"get"}

\* The option a device-scoped call looks up.
KeyOf(call) ==
    IF call.op = "get_selinux" THEN "selinux"
    ELSE IF call.op = "get_ramdisk_offset" THEN "ramdisk_offset"
    ELSE PartitionKey(call.a1)

\* A section is missing: it is not the DEFAULT section and no header of the
\* file names it.
Missing(s) == s # DEFAULTSECT /\ s \notin DOMAIN sections

\* [Defaults] holds a device key written without interpolation references.
DeviceWritten ==
    /\ "Defaults" \in DOMAIN sections
    /\ "device" \in DOMAIN sections["Defaults"]
    /\ ~HasRef(sections["Defaults"]["device"])
DeviceName == Str(sections["Defaults"]["device"])
\* The device is resolvable: it names a section of the document.
DeviceResolvable == DeviceWritten /\ DeviceName \in DOMAIN sections

\* v with every reference replaced by dv.
RECURSIVE Expand(_, _)
Expand(v, dv) ==
    IF v = <<>> THEN <<>>
    ELSE (IF Head(v) = RefDevice THEN dv ELSE <<Head(v)>>)
         \o Expand(Tail(v), dv)

\* out is what reading the stored value v in a section with options m
\* gives: v itself when it holds no reference, v with its references
\* replaced when they resolve, an interpolation error otherwise.
ReadsAs(v, m, out) ==
    IF ~HasRef(v) THEN out = Ret(v)
    ELSE IF "device" \in DOMAIN m /\ ~HasRef(m["device"])
    THEN out = Ret(Expand(v, m["device"]))
    ELSE out.k \in InterpolationErrors

\* C1: has(section, option) on a section that does not exist returns false
\* and raises nothing.
C1_HasMissingSectionFalse ==
    Loaded /\ last.op = "has" /\ Missing(last.a1) => last.out = Bool(FALSE)

\* C2: with a resolvable device d (and no selinux option inherited from
\* DEFAULT, no reference in the stored value), get_selinux() returns absent
\* when section d lacks selinux, when the stored value is empty and when it
\* is "unchanged", and returns the stored value otherwise.
C2_SelinuxAbsentOrStored ==
    (/\ Loaded
     /\ last.op = "get_selinux"
     /\ DeviceResolvable
     /\ "selinux" \notin DOMAIN defaults
     /\ "selinux" \in DOMAIN sections[DeviceName]
           => ~HasRef(sections[DeviceName]["selinux"]))
    => last.out =
         IF "selinux" \notin DOMAIN sections[DeviceName] THEN None
         ELSE IF sections[DeviceName]["selinux"] = <<>> THEN None
         ELSE IF Str(sections[DeviceName]["selinux"]) = "unchanged" THEN None
         ELSE Ret(sections[DeviceName]["selinux"])

\* C3 as stated: when defaults.conf does not exist, initialization ends in
\* a file-access error, the store never becomes loaded and no accessor call
\* succeeds.
C3_MissingFileRaises ==
    ~fileExists /\ pc # "import"
    => /\ pc = "raised"
       /\ initError # "none"
       /\ last = NoCall

\* C3 amended: when defaults.conf does not exist, initialization raises
\* nothing and the store becomes loaded with an empty document; afterwards
\* get and the get_* accessors end in a lookup error, and has returns false
\* or (py3, section other than DEFAULT) ends in KeyError.
C3_MissingFileLoadsEmpty ==
    ~fileExists
    => /\ initError = "none"
       /\ pc \in {"import", "ready"}
       /\ sections = EmptyDict /\ defaults = EmptyDict
       /\ last.op \in StringOps => IsLookupError(last.out)
       /\ last.op = "has" =>
            \/ last.out = Bool(FALSE)
            \/ py3 /\ last.a1 # DEFAULTSECT
                   /\ last.out = Raise("KeyError", <<last.a1>>)

C3_Witness ==
    /\ ~fileExists
    /\ Loaded
    /\ last.op = "get_selinux"
    /\ IsLookupError(last.out)

\* C4: when [Defaults] device names no section of the document, each
\* device-scoped lookup returns absent and raises nothing.
C4_UnknownDeviceAbsent ==
    (/\ Loaded
     /\ last.op \in ScopedOps
     /\ DeviceWritten
     /\ DeviceName \notin DOMAIN sections)
    => last.out = None

\* C5 as stated: for a (section, option) pair present in the document,
\* get returns exactly the stored string.
C5_GetReturnsStored ==
    (/\ Loaded
     /\ last.op = "get"
     /\ ~Missing(last.a1)
     /\ last.a2 \in DOMAIN SectDict(last.a1))
    => last.out = Ret(SectDict(last.a1)[last.a2])

\* C5 amended: for a pair present in the document, get returns exactly the
\* stored string when it holds no interpolation reference; a stored value
\* with a reference is returned with the reference replaced by the value
\* of the option it names (the section's own, else DEFAULT's), or the call
\* ends in an interpolation error when that cannot be done.
C5_GetReturnsStoredOrExpanded ==
    (/\ Loaded
     /\ last.op = "get"
     /\ ~Missing(last.a1)
     /\ last.a2 \in DOMAIN SectDict(last.a1))
    => ReadsAs(SectDict(last.a1)[last.a2], Unify(last.a1), last.out)

C5_Witness ==
    /\ Loaded
    /\ last.op = "get"
    /\ last.a1 \in DOMAIN sections
    /\ last.a2 \in DOMAIN sections[last.a1]
    /\ last.a2 \in DOMAIN defaults
    /\ defaults[last.a2] # sections[last.a1][last.a2]
    /\ sections[last.a1][last.a2] # <<>>
    /\ last.out = Ret(sections[last.a1][last.a2])

\* C6 as stated: for a pair absent from the document (section missing, or
\* option not written in the section), get ends in a lookup error.
C6_GetAbsentRaises ==
    (/\ Loaded
     /\ last.op = "get"
     /\ \/ Missing(last.a1)
        \/ optionxform(last.a2) \notin DOMAIN SectDict(last.a1))
    => IsLookupError(last.out)

\* C6 amended: get ends in a lookup error when the section is missing or
\* the option is written neither in the section nor in DEFAULT; an option
\* not written in the section but written in DEFAULT is answered from
\* DEFAULT, and from no other section.
C6_GetAbsentRaisesUnlessDefault ==
    (Loaded /\ last.op = "get")
    => /\ (\/ Missing(last.a1)
           \/ optionxform(last.a2) \notin
                 DOMAIN SectDict(last.a1) \cup DOMAIN defaults)
          => IsLookupError(last.out)
       /\ (/\ ~Missing(last.a1)
           /\ optionxform(last.a2) \notin DOMAIN SectDict(last.a1)
           /\ optionxform(last.a2) \in DOMAIN defaults)
          => ReadsAs(defaults[optionxform(last.a2)], Unify(last.a1),
                     last.out)

C6_Witness ==
    /\ Loaded
    /\ last.op = "get"
    /\ last.a1 \in DOMAIN sections
    /\ defaults # EmptyDict
    /\ optionxform(last.a2) \notin
          DOMAIN sections[last.a1] \cup DOMAIN defaults
    /\ IsLookupError(last.out)

\* C7 as stated: with a resolvable device d, get_ramdisk_offset() and
\* get_partition(n) return absent exactly when section d has no such key,
\* and return the stored value verbatim when it has.
C7_AbsentIffNoKey ==
    (/\ Loaded
     /\ last.op \in {"get_ramdisk_offset", "get_partition"}
     /\ DeviceResolvable)
    => IF KeyOf(last) \in DOMAIN sections[DeviceName]
       THEN last.out = Ret(sections[DeviceName][KeyOf(last)])
       ELSE last.out = None

\* C7 amended: with a resolvable device d, the two accessors return absent
\* exactly when neither section d nor DEFAULT has the key; otherwise the
\* value of section d, else of DEFAULT, is read without collapsing "" or
\* "unchanged": returned verbatim when it holds no reference, expanded or
\* ending in an interpolation error when it does.
C7_AbsentIffNoKeyAnywhere ==
    (/\ Loaded
     /\ last.op \in {"get_ramdisk_offset", "get_partition"}
     /\ DeviceResolvable)
    => IF KeyOf(last) \in DOMAIN Unify(DeviceName)
       THEN /\ last.out # None
            /\ ReadsAs(Unify(DeviceName)[KeyOf(last)], Unify(DeviceName),
                       last.out)
       ELSE last.out = None

C7_Witness ==
    /\ Loaded
    /\ last.op = "get_ramdisk_offset"
    /\ DeviceResolvable
    /\ "ramdisk_offset" \in DOMAIN sections[DeviceName]
    /\ last.out = Ret(<<"unchanged">>)

\* C8: once loaded, the store stays loaded and no accessor call changes
\* the document; loaded is entered only from the load, before any call.
C8_LoadedOnceAndImmutable ==
    [][/\ Loaded => /\ Loaded'
                    /\ sections' = sections
                    /\ defaults' = defaults
       /\ (~Loaded /\ Loaded') => (pc \in {"import", "reading"}
                                   /\ last = NoCall)]_vars

C8_Witness ==
    /\ Loaded
    /\ sections # EmptyDict
    /\ last.op = "get"
    /\ IsRaise(last.out)

\* The lookup error of get("Defaults", "device") on a document that does
\* not supply the key.
NoDeviceError ==
    IF py3
    THEN IF "Defaults" \notin DOMAIN sections
         THEN Raise("KeyError", <<"Defaults">>)
         ELSE Raise("KeyError", <<"device">>)
    ELSE IF "Defaults" \notin DOMAIN sections
         THEN Raise("NoSectionError", <<"Defaults">>)
         ELSE Raise("NoOptionError", <<"device", "Defaults">>)

\* C9 as stated: a document without a device key in [Defaults] loads, and
\* get_device() and the device-scoped accessors end in a lookup error.
C9_NoDeviceKeyRaises ==
    (/\ Loaded
     /\ last.op \in DeviceOps
     /\ \/ "Defaults" \notin DOMAIN sections
        \/ "device" \notin DOMAIN sections["Defaults"])
    => IsLookupError(last.out)

\* C9 amended: a document whose [Defaults] section is missing, or has no
\* device key of its own and inherits none from DEFAULT, loads, and
\* get_device() and the device-scoped accessors all end in the lookup
\* error of get("Defaults", "device").
C9_NoDeviceAnywhereRaises ==
    (/\ last.op \in DeviceOps
     /\ \/ "Defaults" \notin DOMAIN sections
        \/ "device" \notin DOMAIN sections["Defaults"] \cup DOMAIN defaults)
    => /\ Loaded
       /\ initError = "none"
       /\ last.out = NoDeviceError

C9_Witness ==
    /\ Loaded
    /\ "Defaults" \in DOMAIN sections
    /\ "deviceA" \in DOMAIN sections
    /\ "device" \notin DOMAIN sections["Defaults"] \cup DOMAIN defaults
    /\ last.op = "get_partition"
    /\ last.out = NoDeviceError

\* The outcome of a device-scoped accessor run alone on the document.
Alone(call) ==
    IF call.op = "get_selinux" THEN get_selinux
    ELSE IF call.op = "get_ramdisk_offset" THEN get_ramdisk_offset
    ELSE IF call.key = PartitionKey("boot") THEN get_partition("boot")
    ELSE get_partition("recovery")

\* C10: under any interleaving of the threads' steps, a finished call has
\* the outcome it has when run alone, and a call that passed its has check
\* still passes it when its get runs.
C10_InterleavingSameAsAlone ==
    \A t \in Threads :
        /\ tpc[t] = "done" => tres[t] = Alone(top[t])
        /\ tpc[t] = "checked" => HasPhase(top[t].key) = Bool(TRUE)

C10_Witness ==
    /\ tpc[1] = "done"
    /\ tres[1].k = "str"
    /\ tpc[2] = "checked"
    /\ top[2] = top[1]
====
